---- MODULE Spec2Model ----
(***************************************************************************)
(* A model of AlphaPulse-AI (tradepulse-ai/app): the response parser of    *)
(* services/openai_summarizer.py, the news compactor, the news aggregator  *)
(* of services/news_crawler.py and the run orchestrator of routes.py.      *)
(*                                                                         *)
(* A Python str is a sequence of one-character strings.  Offsets are the   *)
(* 0-based offsets of the Python code; Slice(s, a, b) is s[a:b].           *)
(***************************************************************************)
EXTENDS Integers, Sequences, FiniteSets, TLC

\* ------------------------------------------------------------------------
\* Characters
\* ------------------------------------------------------------------------

\* U+2028 LINE SEPARATOR: whitespace for str.strip() and for \s, a line
\* boundary for str.splitlines(), not a JSON whitespace, and allowed raw
\* inside a JSON string.
LS == "LS"

\* A non-ASCII letter (two bytes in UTF-8, one character for len()).
EACUTE == "E9"

NL == "\n"
SP == " "
QUOTE == "\""
BSLASH == "\\"
\* the backquote character (U+0060)
TICK == "BQ"

Max(S) == CHOOSE x \in S : \A y \in S : y <= x
Min(S) == CHOOSE x \in S : \A y \in S : x <= y

\* str.isspace() / the regular expression class \s on the model alphabet
IsSpace(c) == c \in {" ", NL, "\t", LS}

\* the whitespace json.loads skips between tokens
IsJsonWs(c) == c \in {" ", NL, "\t"}

\* str.lower() / re.IGNORECASE on the model alphabet
Lower(c) ==
  CASE c = "J" -> "j"
    [] c = "S" -> "s"
    [] c = "O" -> "o"
    [] c = "N" -> "n"
    [] c = "I" -> "i"
    [] c = "G" -> "g"
    [] c = "A" -> "a"
    [] c = "L" -> "l"
    [] c = "B" -> "b"
    [] OTHER -> c

\* str.upper() on the model alphabet
Upper(c) ==
  CASE c = "j" -> "J"
    [] c = "s" -> "S"
    [] c = "o" -> "O"
    [] c = "n" -> "N"
    [] c = "i" -> "I"
    [] c = "g" -> "G"
    [] c = "a" -> "A"
    [] c = "l" -> "L"
    [] c = "b" -> "B"
    [] OTHER -> c

\* ------------------------------------------------------------------------
\* str operations
\* ------------------------------------------------------------------------

\* s[a:b] for 0 <= a, b
Slice(s, a, b) == SubSeq(s, a + 1, IF b > Len(s) THEN Len(s) ELSE b)

\* s[a:]
From(s, a) == SubSeq(s, a + 1, Len(s))

\* str.strip()
Strip(s) ==
  LET I == {i \in 1..Len(s) : ~IsSpace(s[i])}
  IN  IF I = {} THEN <<>> ELSE SubSeq(s, Min(I), Max(I))

\* s.startswith(p, at): p occurs in s at offset at
OccursAt(s, p, at) ==
  /\ at >= 0
  /\ at + Len(p) <= Len(s)
  /\ \A k \in 1..Len(p) : s[at + k] = p[k]

\* the same, ignoring case (re.IGNORECASE on a literal)
OccursAtNoCase(s, p, at) ==
  /\ at >= 0
  /\ at + Len(p) <= Len(s)
  /\ \A k \in 1..Len(p) : Lower(s[at + k]) = Lower(p[k])

StartsWith(s, p) == OccursAt(s, p, 0)
EndsWith(s, p) == Len(s) >= Len(p) /\ OccursAt(s, p, Len(s) - Len(p))

\* str.find(p): the least offset where p occurs, -1 if none
Find(s, p) ==
  LET I == {a \in 0..Len(s) : OccursAt(s, p, a)}
  IN  IF I = {} THEN -1 ELSE Min(I)

\* the offset after the longest run of \s characters that starts at offset p
SkipSpace(s, p) ==
  LET I == {q \in p..Len(s) : \A k \in (p + 1)..q : IsSpace(s[k])}
  IN  Max(I)

\* the offset after the longest run of JSON whitespace that starts at p
SkipJsonWs(s, p) ==
  LET I == {q \in p..Len(s) : \A k \in (p + 1)..q : IsJsonWs(s[k])}
  IN  Max(I)

\* str.splitlines(): the line boundaries of the alphabet are \n and U+2028;
\* no empty last line for a text that ends with a boundary
IsLineBreak(c) == c \in {NL, LS}

RECURSIVE SplitLinesFrom(_, _)
SplitLinesFrom(s, p) ==
  IF p >= Len(s) THEN <<>>
  ELSE LET B == {q \in (p + 1)..Len(s) : IsLineBreak(s[q])}
       IN  IF B = {} THEN <<From(s, p)>>
           ELSE <<Slice(s, p, Min(B) - 1)>> \o SplitLinesFrom(s, Min(B))

splitlines(s) == SplitLinesFrom(s, 0)

\* '\n'.join(lines)
RECURSIVE JoinLines(_)
JoinLines(lines) ==
  IF Len(lines) = 0 THEN <<>>
  ELSE IF Len(lines) = 1 THEN lines[1]
  ELSE lines[1] \o <<NL>> \o JoinLines(Tail(lines))

FENCE == <<TICK, TICK, TICK>>

\* a faulty variant of _strip_code_fences, which C4 must tell from it: the
\* line of the closing fence is kept
strip_code_fences_keeps_last(s0) ==
  LET s == Strip(s0)
      lines == splitlines(s)
  IN  IF StartsWith(s, FENCE) /\ EndsWith(s, FENCE) /\ Len(lines) >= 2
        THEN JoinLines(SubSeq(lines, 2, Len(lines)))
        ELSE s

\* _strip_code_fences
strip_code_fences(s0) ==
  LET s == Strip(s0)
      lines == splitlines(s)
  IN  IF StartsWith(s, FENCE) /\ EndsWith(s, FENCE) /\ Len(lines) >= 2
        THEN JoinLines(SubSeq(lines, 2, Len(lines) - 1))
        ELSE s

\* ------------------------------------------------------------------------
\* json.loads on the model alphabet.  A parsed value is a record
\*   [t, s, items]: t the Python type ("str", "num", "lit", "list", "dict",
\*   and "member" for one key/value pair of a dict), s the characters of a
\*   str, number, literal or member key, items the elements of a list, the
\*   members of a dict, or the value of a member.
\* ------------------------------------------------------------------------

JStr(s) == [t |-> "str", s |-> s, items |-> <<>>]
JNum(s) == [t |-> "num", s |-> s, items |-> <<>>]
JLit(s) == [t |-> "lit", s |-> s, items |-> <<>>]
JList(items) == [t |-> "list", s |-> <<>>, items |-> items]
JDict(members) == [t |-> "dict", s |-> <<>>, items |-> members]
Member(k, v) == [t |-> "member", s |-> k, items |-> <<v>>]

\* key in d
DictHas(d, key) == \E i \in 1..Len(d.items) : d.items[i].s = key

\* d[key], for a key of d
DictGet(d, key) ==
  d.items[CHOOSE i \in 1..Len(d.items) : d.items[i].s = key].items[1]

\* d[key] = v on the members of a dict: a repeated key keeps its place and
\* takes the last value
DictSet(members, key, v) ==
  IF \E i \in 1..Len(members) : members[i].s = key
    THEN [i \in 1..Len(members) |->
            IF members[i].s = key THEN Member(key, v) ELSE members[i]]
    ELSE Append(members, Member(key, v))

\* a json.JSONDecodeError
JFail == [ok |-> FALSE, val |-> JLit(<<>>), pos |-> 0]
JOk(v, p) == [ok |-> TRUE, val |-> v, pos |-> p]

\* the characters json accepts after a backslash, and what they decode to
\* (\uXXXX needs four hex digits, which no input of the model has)
ESCAPES == {QUOTE, BSLASH, "/", "b", "f", "n", "r", "t"}
Unescape(c) ==
  CASE c = "n" -> NL
    [] c = "t" -> "\t"
    [] c = "r" -> "\r"
    [] c = "b" -> "BS"
    [] c = "f" -> "\f"
    [] OTHER -> c

\* control characters, which strict json rejects raw inside a string
IsControl(c) == c \in {NL, "\t", "\r", "\f", "BS"}

\* json.decoder.scanstring: i is the offset after the opening quote
RECURSIVE ScanString(_, _, _)
ScanString(s, i, acc) ==
  IF i >= Len(s) THEN JFail
  ELSE LET ch == s[i + 1]
       IN  IF ch = QUOTE THEN JOk(JStr(acc), i + 1)
           ELSE IF ch = BSLASH
             THEN IF i + 1 < Len(s) /\ s[i + 2] \in ESCAPES
                    THEN ScanString(s, i + 2, Append(acc, Unescape(s[i + 2])))
                    ELSE JFail
           ELSE IF IsControl(ch) THEN JFail
           ELSE ScanString(s, i + 1, Append(acc, ch))

LITERALS ==
  << <<"n", "u", "l", "l">>, <<"t", "r", "u", "e">>,
     <<"f", "a", "l", "s", "e">>, <<"N", "a", "N">> >>

IsDigit(c) == c \in {"0", "1"}

\* the end of the number that starts at offset p: -?(0|[1-9]\d*); the
\* alphabet has no '.', and no digit is followed by an exponent
NumberEnd(s, p) ==
  LET a == IF OccursAt(s, <<"-">>, p) THEN p + 1 ELSE p
  IN  IF a >= Len(s) \/ ~IsDigit(s[a + 1]) THEN -1
      ELSE IF s[a + 1] = "0" THEN a + 1
      ELSE Max({q \in (a + 1)..Len(s) : \A k \in (a + 1)..q : IsDigit(s[k])})

RECURSIVE parse_value(_, _), ParseMembers(_, _, _), ParseElements(_, _, _)

\* json.scanner.py_make_scanner._scan_once at offset p
parse_value(s, p) ==
  IF p >= Len(s) THEN JFail
  ELSE LET ch == s[p + 1]
           lits == {i \in 1..Len(LITERALS) : OccursAt(s, LITERALS[i], p)}
       IN  IF ch = QUOTE THEN ScanString(s, p + 1, <<>>)
           ELSE IF ch = "{"
             THEN LET a == SkipJsonWs(s, p + 1)
                  IN  IF a >= Len(s) THEN JFail
                      ELSE IF s[a + 1] = "}" THEN JOk(JDict(<<>>), a + 1)
                      ELSE IF s[a + 1] = QUOTE THEN ParseMembers(s, a, <<>>)
                      ELSE JFail
           ELSE IF ch = "["
             THEN LET a == SkipJsonWs(s, p + 1)
                  IN  IF a >= Len(s) THEN JFail
                      ELSE IF s[a + 1] = "]" THEN JOk(JList(<<>>), a + 1)
                      ELSE ParseElements(s, a, <<>>)
           ELSE IF lits # {}
             THEN LET l == LITERALS[CHOOSE i \in lits : TRUE]
                  IN  JOk(JLit(l), p + Len(l))
           ELSE IF NumberEnd(s, p) # -1
             THEN JOk(JNum(Slice(s, p, NumberEnd(s, p))), NumberEnd(s, p))
           ELSE JFail

\* json.decoder.JSONObject from a member: s[a] is the quote that opens a key
ParseMembers(s, a, acc) ==
  LET k == ScanString(s, a + 1, <<>>)
      b == SkipJsonWs(s, k.pos)
      c == SkipJsonWs(s, b + 1)
      v == parse_value(s, c)
      d == SkipJsonWs(s, v.pos)
      e == SkipJsonWs(s, d + 1)
      members == DictSet(acc, k.val.s, v.val)
  IN  IF ~k.ok THEN JFail
      ELSE IF ~OccursAt(s, <<":">>, b) THEN JFail
      ELSE IF ~v.ok THEN JFail
      ELSE IF d >= Len(s) THEN JFail
      ELSE IF s[d + 1] = "}" THEN JOk(JDict(members), d + 1)
      ELSE IF s[d + 1] = "," /\ OccursAt(s, <<QUOTE>>, e)
        THEN ParseMembers(s, e, members)
      ELSE JFail

\* json.decoder.JSONArray from an element that starts at offset a
ParseElements(s, a, acc) ==
  LET v == parse_value(s, a)
      d == SkipJsonWs(s, v.pos)
      e == SkipJsonWs(s, d + 1)
  IN  IF ~v.ok THEN JFail
      ELSE IF d >= Len(s) THEN JFail
      ELSE IF s[d + 1] = "]" THEN JOk(JList(Append(acc, v.val)), d + 1)
      ELSE IF s[d + 1] = "," THEN ParseElements(s, e, Append(acc, v.val))
      ELSE JFail

\* json.loads(s): ok is FALSE where json.loads raises
json_loads(s) ==
  LET v == parse_value(s, SkipJsonWs(s, 0))
  IN  IF v.ok /\ SkipJsonWs(s, v.pos) = Len(s) THEN v ELSE JFail

\* ------------------------------------------------------------------------
\* _cut_balanced_json
\* ------------------------------------------------------------------------

\* a faulty variant of the loop, which C5 must tell from it: a backslash
\* inside a string does not escape the next character
RECURSIVE CutScanNoEscape(_, _, _, _, _, _)
CutScanNoEscape(text, start, i, depth, in_string, escape) ==
  IF i >= Len(text) THEN <<>>
  ELSE LET ch == text[i + 1]
       IN  IF in_string
             THEN IF ch = QUOTE
                    THEN CutScanNoEscape(text, start, i + 1, depth, FALSE, escape)
                    ELSE CutScanNoEscape(text, start, i + 1, depth, TRUE, escape)
           ELSE IF ch = QUOTE
             THEN CutScanNoEscape(text, start, i + 1, depth, TRUE, escape)
           ELSE IF ch = "{"
             THEN CutScanNoEscape(text, start, i + 1, depth + 1, FALSE, escape)
           ELSE IF ch = "}"
             THEN IF depth - 1 = 0 THEN Slice(text, start, i + 1)
                  ELSE CutScanNoEscape(text, start, i + 1, depth - 1, FALSE, escape)
           ELSE CutScanNoEscape(text, start, i + 1, depth, FALSE, escape)

\* the for loop of _cut_balanced_json at index i
RECURSIVE CutScan(_, _, _, _, _, _)
CutScan(text, start, i, depth, in_string, escape) ==
  IF i >= Len(text) THEN <<>>
  ELSE LET ch == text[i + 1]
       IN  IF in_string
             THEN IF escape THEN CutScan(text, start, i + 1, depth, TRUE, FALSE)
                  ELSE IF ch = BSLASH
                    THEN CutScan(text, start, i + 1, depth, TRUE, TRUE)
                  ELSE IF ch = QUOTE
                    THEN CutScan(text, start, i + 1, depth, FALSE, escape)
                  ELSE CutScan(text, start, i + 1, depth, TRUE, escape)
           ELSE IF ch = QUOTE
             THEN CutScan(text, start, i + 1, depth, TRUE, escape)
           ELSE IF ch = "{"
             THEN CutScan(text, start, i + 1, depth + 1, FALSE, escape)
           ELSE IF ch = "}"
             THEN IF depth - 1 = 0 THEN Slice(text, start, i + 1)
                  ELSE CutScan(text, start, i + 1, depth - 1, FALSE, escape)
           ELSE CutScan(text, start, i + 1, depth, FALSE, escape)

cut_balanced_json(text, start) ==
  IF start < 0 \/ start >= Len(text) \/ text[start + 1] # "{" THEN <<>>
  ELSE CutScan(text, start, start, 0, FALSE, FALSE)

\* ------------------------------------------------------------------------
\* _extract_markdown_and_json
\* ------------------------------------------------------------------------

ARROW == <<"-", "-", ">">>
JSONWORD == <<"j", "s", "o", "n">>
LEGACY == <<NL, "J", "S", "O", "N", ":">>
SIGNALS == <<"s", "i", "g", "n", "a", "l", "s">>
QSIGNALS == <<QUOTE>> \o SIGNALS \o <<QUOTE>>
ACTION_KEY == <<"a", "c", "t", "i", "o", "n">>
TICKER_KEY == <<"t", "i", "c", "k", "e", "r">>

\* where a match of ^\s*(?:-->\s*)?json\s*:\s*$ that starts at offset p
\* ends, -1 if there is none: each \s* takes its whole run of whitespace,
\* but the last one gives back down to the last line feed of its run when
\* the run does not reach the end of the text ($ with re.MULTILINE)
MarkerMatchAt(text, p) ==
  LET a == SkipSpace(text, p)
      b == IF OccursAt(text, ARROW, a) THEN SkipSpace(text, a + 3) ELSE a
      d == SkipSpace(text, b + 4)
      f == SkipSpace(text, d + 1)
      nls == {q \in (d + 1)..(f - 1) : text[q + 1] = NL}
  IN  IF ~(p = 0 \/ text[p] = NL) THEN -1
      ELSE IF ~OccursAtNoCase(text, JSONWORD, b) THEN -1
      ELSE IF ~OccursAt(text, <<":">>, d) THEN -1
      ELSE IF f = Len(text) THEN f
      ELSE IF nls = {} THEN -1
      ELSE Max(nls)

\* pattern.search(text): the leftmost match, start = -1 if there is none
MarkerSearch(text) ==
  LET P == {p \in 0..Len(text) : MarkerMatchAt(text, p) # -1}
  IN  IF P = {} THEN [start |-> -1, end |-> -1]
      ELSE [start |-> Min(P), end |-> MarkerMatchAt(text, Min(P))]

\* sig_pat = \{\s*"signals"\s*:\s* (re.IGNORECASE) matches at offset p
SigPatAt(text, p) ==
  /\ OccursAt(text, <<"{">>, p)
  /\ LET a == SkipSpace(text, p + 1)
     IN  /\ OccursAtNoCase(text, QSIGNALS, a)
         /\ OccursAt(text, <<":">>, SkipSpace(text, a + Len(QSIGNALS)))

\* matches[-1].start() of sig_pat.finditer(text), -1 if there is no match
\* (two matches never overlap: a match holds one brace, its first character)
LastSigPat(text) ==
  LET P == {p \in 0..Len(text) : SigPatAt(text, p)}
  IN  IF P = {} THEN -1 ELSE Max(P)

EmptySignalSet == JDict(<<Member(SIGNALS, JList(<<>>))>>)

\* the try blocks "data = json.loads(...)" with their isinstance tests, for
\* the outcome r of json.loads: hit where the block returns
Loaded(r) ==
  IF r.ok /\ r.val.t = "dict" /\ DictHas(r.val, SIGNALS)
    THEN [hit |-> TRUE, signals |-> r.val]
  ELSE IF r.ok /\ r.val.t = "list"
    THEN [hit |-> TRUE, signals |-> JDict(<<Member(SIGNALS, r.val)>>)]
  ELSE [hit |-> FALSE, signals |-> EmptySignalSet]

LoadSignals(json_part) == Loaded(json_loads(json_part))

\* the returns of the marker branch, for its md and the outcome r of its
\* try block
MarkerReturn(md, r) ==
  IF r.hit THEN [md |-> md, signals |-> r.signals, via |-> "marker"]
  ELSE [md |-> md, signals |-> EmptySignalSet, via |-> "giveup"]

\* a faulty variant of the marker branch, which C3 must tell from it: the
\* text before the marker is not trimmed
MarkerBranchNoStrip(text, m) ==
  MarkerReturn(Slice(text, 0, m.start),
               LoadSignals(Strip(strip_code_fences(Strip(From(text, m.end))))))

\* what _extract_markdown_and_json returns when the marker line matched
MarkerBranch(text, m) ==
  MarkerReturn(Strip(Slice(text, 0, m.start)),
               LoadSignals(Strip(strip_code_fences(Strip(From(text, m.end))))))

\* the strategies in their order, for the marker match m, the offset idx
\* of the legacy separator with the outcome a of its try block, and the
\* offset start of the last signals object with its candidate and the
\* outcome b of its try block
Strategies(text, m, idx, a, start, candidate, b) ==
  IF m.start # -1 THEN MarkerBranch(text, m)
  ELSE IF idx # -1 /\ a.hit
    THEN [md |-> Strip(Slice(text, 0, idx + 1)), signals |-> a.signals,
          via |-> "legacy"]
  ELSE IF start # -1 /\ candidate # <<>> /\ b.hit
    THEN [md |-> Strip(Slice(text, 0, start)), signals |-> b.signals,
          via |-> "inline"]
  ELSE [md |-> Strip(text), signals |-> EmptySignalSet, via |-> "giveup"]

\* split_at = idx + 1; json_part = text[split_at + len('JSON:'):]
LegacyPart(text, idx) ==
  Strip(strip_code_fences(Strip(From(text, idx + 1 + Len(LEGACY) - 1))))

ExtractAt(text, m, idx, start) ==
  Strategies(text, m, idx, LoadSignals(LegacyPart(text, idx)), start,
             cut_balanced_json(text, start),
             LoadSignals(cut_balanced_json(text, start)))

\* _extract_markdown_and_json(content) for a str; via names the strategy
\* whose return statement was taken
extract_text(text) ==
  ExtractAt(text, MarkerSearch(text), Find(text, LEGACY), LastSigPat(text))

\* the Python value None, where a str is expected
None == <<"None">>

\* _extract_markdown_and_json(content): text = content or ''
extract_markdown_and_json(content) ==
  extract_text(IF content = None THEN <<>> ELSE content)

\* ------------------------------------------------------------------------
\* The responses the parser is run on: prefix + marker + opening fence +
\* body + closing fence + suffix, each drawn from a table
\* ------------------------------------------------------------------------

\* the text before the marker
PREFIXES ==
  <<
    <<>>,
    <<"a", "b">>,
    <<SP, "a", NL>>,
    <<"a", NL, "J", "s", "o", "n", ":", NL, "b">>,
    <<"a", NL, "-", "-", ">">>,
    <<"a", "{">>
  >>

\* marker lines (2..4), a legacy marker, a marker that shares its line
\* with the body, and no marker at all (1, 7)
MARKERS ==
  <<
    <<>>,
    <<NL, "-", "-", ">", "J", "s", "o", "n", ":", NL>>,
    <<NL, "j", "s", "o", "n", ":", NL>>,
    <<NL, "-", "-", ">", SP, "J", "S", "O", "N", SP, ":", SP, NL>>,
    <<NL, "J", "S", "O", "N", ":">>,
    <<NL, "j", "s", "o", "n", ":", SP>>,
    <<SP>>
  >>

\* opening fences: none, on a line of its own, with a language tag, and
\* on the line of the body
OPENS ==
  <<
    <<>>,
    <<TICK, TICK, TICK, NL>>,
    <<TICK, TICK, TICK, "j", "s", "o", "n", NL>>,
    <<TICK, TICK, TICK>>
  >>

\* JSON candidates, valid and not
BODIES ==
  <<
    <<"{", QUOTE, "s", "i", "g", "n", "a", "l", "s", QUOTE, ":", "[", "]",
      "}">>,
    <<"{", QUOTE, "s", "i", "g", "n", "a", "l", "s", QUOTE, ":", "[", "{",
      QUOTE, "t", "i", "c", "k", "e", "r", QUOTE, ":", QUOTE, "A", QUOTE,
      ",", QUOTE, "a", "c", "t", "i", "o", "n", QUOTE, ":", QUOTE, "B",
      "u", "y", QUOTE, "}", "]", "}">>,
    <<"{", NL, SP, QUOTE, "s", "i", "g", "n", "a", "l", "s", QUOTE, ":",
      SP, "[", "]", NL, "}">>,
    <<"{", QUOTE, "s", "i", "g", "n", "a", "l", "s", QUOTE, ":", "n", "u",
      "l", "l", "}">>,
    <<"[", "1", "]">>,
    <<"{", QUOTE, "a", QUOTE, ":", "1", "}">>,
    <<"{", QUOTE, "s", "i", "g", "n", "a", "l", "s", QUOTE, ":", "[">>,
    <<"{", QUOTE, "s", "i", "g", "n", "a", "l", "s", QUOTE, ":", "[",
      QUOTE, "}", QUOTE, "]", "}">>,
    <<"{", QUOTE, "s", "i", "g", "n", "a", "l", "s", QUOTE, ":", "[",
      QUOTE, BSLASH, BSLASH, QUOTE, "]", "}">>,
    <<"{", QUOTE, "s", "i", "g", "n", "a", "l", "s", QUOTE, ":", "[",
      QUOTE, "a", BSLASH, QUOTE, "}", QUOTE, "]", "}">>,
    <<"{", QUOTE, "s", "i", "g", "n", "a", "l", "s", QUOTE, ":", "[",
      QUOTE, "a", LS, "b", QUOTE, "]", "}">>,
    <<>>,
    <<"{", QUOTE, "S", "I", "G", "N", "A", "L", "S", QUOTE, ":", "[", "]",
      "}">>,
    <<"{", QUOTE, "s", "i", "g", "n", "a", "l", "s", QUOTE, ":", "[", "{",
      QUOTE, "t", "i", "c", "k", "e", "r", QUOTE, ":", QUOTE, "A", QUOTE,
      ",", QUOTE, "a", "c", "t", "i", "o", "n", QUOTE, ":", QUOTE, "H",
      "o", "l", "d", QUOTE, "}", "]", "}">>,
    <<"x">>
  >>

\* closing fences: none, on a line of its own, on the line of the body
CLOSES ==
  <<
    <<>>,
    <<NL, TICK, TICK, TICK>>,
    <<TICK, TICK, TICK>>
  >>

\* the text after the candidate
SUFFIXES ==
  <<
    <<>>,
    <<NL, "a", "b">>,
    <<SP>>
  >>

\* ------------------------------------------------------------------------
\* State
\* ------------------------------------------------------------------------

VARIABLES
  parser,   \* a call of _extract_markdown_and_json: its input and its result
  cutter,   \* a call of _cut_balanced_json: its arguments and its result
  crawler,  \* a call of fetch_relevant_news: its loop and its lists
  compactor, \* a call of _compact_news: its arguments and its result
  config,   \* the saved OpenAI key (present or not) and DEFAULT_TICKERS
  upstream, \* the answers the upstream services have given so far
  file,     \* data/last_run.json
  ai_out,   \* data/openai_output.json
  run,      \* the run in progress: its entry point, position and locals
  history,  \* the runs that completed: entry point, tickers, report
  clock,    \* datetime.utcnow(), in runs
  events,   \* the events in the response body of the latest run request
  quoter    \* a call of get_daily_indicators: its loop and its result

orchVars == <<config, upstream, file, ai_out, run, history, clock, events>>
funVars == <<parser, cutter, crawler, compactor, quoter>>
vars == <<parser, cutter, crawler, compactor, quoter, orchVars>>

\* the response a choice of table entries stands for
Response(in) ==
  PREFIXES[in.prefix] \o MARKERS[in.marker] \o OPENS[in.open]
    \o BODIES[in.body] \o CLOSES[in.close] \o SUFFIXES[in.suffix]

ParserInputs ==
  [prefix : 1..Len(PREFIXES), marker : 1..Len(MARKERS), open : 1..Len(OPENS),
   body : 1..Len(BODIES), close : 1..Len(CLOSES), suffix : 1..Len(SUFFIXES)]

NoResult == [md |-> <<>>, signals |-> JLit(<<>>), via |-> "none"]

\* the table entries of a content that is None
NoInput ==
  [prefix |-> 0, marker |-> 0, open |-> 0, body |-> 0, close |-> 0,
   suffix |-> 0]

ParserIdle ==
  [pc |-> "idle", in |-> NoInput, content |-> None, out |-> NoResult]

\* the caller holds a content: a response of the tables, or None
ParserStart ==
  \/ \E in \in ParserInputs :
       parser = [pc |-> "call", in |-> in, content |-> Response(in),
                 out |-> NoResult]
  \/ parser = [pc |-> "call", in |-> NoInput, content |-> None,
               out |-> NoResult]

\* markdown, signals = _extract_markdown_and_json(content)
Extract ==
  /\ parser.pc = "call"
  /\ parser' = [parser EXCEPT !.pc = "done",
                              !.out = extract_markdown_and_json(parser.content)]
  /\ UNCHANGED <<cutter, crawler, compactor, quoter, orchVars>>

\* ------------------------------------------------------------------------
\* A call of _cut_balanced_json(text, start)
\* ------------------------------------------------------------------------

\* the longest text the scanner is run on
MaxCutLen == 6

CutAlphabet == {"{", "}", QUOTE, BSLASH, "a"}

RECURSIVE TextsUpTo(_)
TextsUpTo(n) ==
  IF n = 0 THEN {<<>>}
  ELSE LET T == TextsUpTo(n - 1)
       IN  T \cup {Append(t, c) : t \in {u \in T : Len(u) = n - 1},
                                  c \in CutAlphabet}

CutterIdle == [pc |-> "idle", text |-> <<>>, start |-> 0, out |-> <<>>]

\* any text, and any start from -1 to len(text)
CutterStart ==
  \E t \in TextsUpTo(MaxCutLen) : \E st \in -1..Len(t) :
    cutter = [pc |-> "call", text |-> t, start |-> st, out |-> <<>>]

\* candidate = _cut_balanced_json(text, start)
Cut ==
  /\ cutter.pc = "call"
  /\ cutter' = [cutter EXCEPT !.pc = "done",
                              !.out = cut_balanced_json(cutter.text, cutter.start)]
  /\ UNCHANGED <<parser, crawler, compactor, quoter, orchVars>>

\* ------------------------------------------------------------------------
\* fetch_relevant_news(tickers)
\* ------------------------------------------------------------------------

\* the most entries an RSS response holds in the model (the code reads the
\* first five of a response)
MaxFeed == 1

\* the most entries a search response holds in the model
MaxSearch == 2

\* the entries of an RSS response: the <title> and <link> of an <item>, ''
\* where _extract finds no tag; a link may be blank or padded
RssEntries ==
  { [title |-> <<"t">>, link |-> <<"u", "1">>],
    [title |-> <<"t">>, link |-> <<SP, "u", "2", SP>>],
    [title |-> <<"t">>, link |-> <<SP, SP>>],
    [title |-> <<>>, link |-> <<"u", "1">>] }

\* an entry of a search response that is not a mapping (n.get raises)
Malformed == <<"malformed">>

\* the entries of a search response: a mapping with or without a link, or
\* something that is not a mapping
SearchEntries ==
  { [title |-> <<"t">>, link |-> <<"u", "1">>],
    [title |-> <<"t">>, link |-> <<"u", "2">>],
    [title |-> <<"t">>, link |-> None],
    [title |-> Malformed, link |-> None] }

RECURSIVE SeqsUpTo(_, _)
SeqsUpTo(S, n) ==
  IF n = 0 THEN {<<>>}
  ELSE LET T == SeqsUpTo(S, n - 1)
       IN  T \cup {Append(t, x) : t \in {u \in T : Len(u) = n - 1}, x \in S}

RSS_SOURCE ==
  <<"Y", "a", "h", "o", "o", SP, "F", "i", "n", "a", "n", "c", "e", SP,
    "R", "S", "S">>

\* the items the RSS loop appends for ticker t: an entry needs a title and
\* a link; the title and the link are stripped
RECURSIVE RssItems(_, _)
RssItems(t, feed) ==
  IF feed = <<>> THEN <<>>
  ELSE LET e == Head(feed)
           rest == RssItems(t, Tail(feed))
       IN  IF e.title # <<>> /\ e.link # <<>>
             THEN <<[ticker |-> t, title |-> Strip(e.title),
                     url |-> Strip(e.link), source |-> RSS_SOURCE,
                     published_at |-> <<>>]>> \o rest
             ELSE rest

\* the items the search loop appends for ticker t: every entry, up to the
\* first one that is not a mapping (the exception ends the loop)
RECURSIVE SearchItems(_, _)
SearchItems(t, nlist) ==
  IF nlist = <<>> THEN <<>>
  ELSE LET n == Head(nlist)
       IN  IF n.title = Malformed THEN <<>>
           ELSE <<[ticker |-> t, title |-> n.title, url |-> n.link,
                   source |-> None, published_at |-> None]>>
                  \o SearchItems(t, Tail(nlist))

\* a faulty variant of the deduplication loop, which C7 must tell from it:
\* an item without a url is kept like any other
RECURSIVE DedupFromAnyUrl(_, _, _, _)
DedupFromAnyUrl(items, i, seen, deduped) ==
  IF i > Len(items) THEN deduped
  ELSE LET u == items[i].url
       IN  IF u \notin seen
             THEN DedupFromAnyUrl(items, i + 1, seen \cup {u},
                                  Append(deduped, items[i]))
             ELSE DedupFromAnyUrl(items, i + 1, seen, deduped)

\* the deduplication loop of fetch_relevant_news from item i
RECURSIVE DedupFrom(_, _, _, _)
DedupFrom(items, i, seen, deduped) ==
  IF i > Len(items) THEN deduped
  ELSE LET u == items[i].url
       IN  IF u \notin {None, <<>>} /\ u \notin seen
             THEN DedupFrom(items, i + 1, seen \cup {u}, Append(deduped, items[i]))
             ELSE DedupFrom(items, i + 1, seen, deduped)

\* the ticker lists fetch_relevant_news is called with
TA == <<"A">>
TB == <<"B">>
TickerLists == {<<>>, <<TA>>, <<TA, TB>>, <<TA, TA>>}

\* calls: the upstream calls made so far, each with the ticker's index,
\* its source, how it went and the number of items it appended
CrawlerIdle ==
  [pc |-> "idle", tickers |-> <<>>, i |-> 1, items |-> <<>>, out |-> <<>>,
   calls |-> <<>>]

CrawlerStart ==
  \E ts \in TickerLists :
    crawler = [pc |-> IF ts = <<>> THEN "dedup" ELSE "rss", tickers |-> ts,
               i |-> 1, items |-> <<>>, out |-> <<>>, calls |-> <<>>]

\* the call of source for tickers[i] went as kind and appended add
Called(source, kind, add) ==
  Append(crawler.calls,
         [i |-> crawler.i, source |-> source, kind |-> kind, added |-> Len(add)])

\* the crawler after the RSS block of tickers[i] appended add
AfterRss(kind, add) ==
  [crawler EXCEPT !.pc = "search", !.items = @ \o add,
                  !.calls = Called("rss", kind, add)]

\* the crawler after the search block of tickers[i] appended add
AfterSearch(kind, add) ==
  [crawler EXCEPT
     !.pc = IF crawler.i = Len(crawler.tickers) THEN "dedup" ELSE "rss",
     !.i = @ + 1,
     !.items = @ \o add,
     !.calls = Called("search", kind, add)]

\* a news list with an entry that is not a mapping
HasMalformed(nlist) == \E k \in 1..Len(nlist) : nlist[k].title = Malformed

\* requests.get(rss_url) for tickers[i]: the call raises, or the response
\* is not ok or has no <item> (nothing is appended), or it has entries
FetchRss ==
  /\ crawler.pc = "rss"
  /\ \/ crawler' = AfterRss("failed", <<>>)
     \/ \E feed \in SeqsUpTo(RssEntries, MaxFeed) :
          /\ feed # <<>>
          /\ crawler' = AfterRss("ok", RssItems(crawler.tickers[crawler.i], feed))
  /\ UNCHANGED <<parser, cutter, compactor, quoter, orchVars>>

\* requests.get(YAHOO_NEWS_SEARCH) for tickers[i]: the call raises or the
\* response is not ok or is no JSON document (nothing is appended), or it
\* has a news list; then the loop goes to the next ticker
FetchSearch ==
  /\ crawler.pc = "search"
  /\ \/ crawler' = AfterSearch("failed", <<>>)
     \/ \E nlist \in SeqsUpTo(SearchEntries, MaxSearch) :
          crawler' = AfterSearch(IF HasMalformed(nlist) THEN "malformed" ELSE "ok",
                                 SearchItems(crawler.tickers[crawler.i], nlist))
  /\ UNCHANGED <<parser, cutter, compactor, quoter, orchVars>>

\* the deduplication by url, and the return
Dedup ==
  /\ crawler.pc = "dedup"
  /\ crawler' = [crawler EXCEPT !.pc = "done",
                                !.out = DedupFrom(crawler.items, 1, {}, <<>>)]
  /\ UNCHANGED <<parser, cutter, compactor, quoter, orchVars>>

\* ------------------------------------------------------------------------
\* _compact_news(news, max_items, per_ticker, max_chars)
\* ------------------------------------------------------------------------

\* the defaults of max_items, per_ticker and max_chars
DEFAULT_MAX_ITEMS == 20
DEFAULT_PER_TICKER == 4
DEFAULT_MAX_CHARS == 8000

\* the length of a title that is kept whole, and of the part kept of a
\* longer one
TITLE_MAX == 180
TITLE_KEEP == 177

\* n times the character c
Repeat(c, n) == [k \in 1..n |-> c]

\* x or '' for a str or None
OrEmpty(x) == IF x = None THEN <<>> ELSE x

\* str.upper()
UpperStr(x) == [k \in 1..Len(x) |-> Upper(x[k])]

\* the characters json.dumps(ensure_ascii=False) writes for a character of
\* a str, or (bytes) the bytes of these characters in UTF-8
DumpWidth(c, bytes) ==
  IF c \in {QUOTE, BSLASH, NL, "\t", "\r", "\f", "BS"} THEN 2
  ELSE IF bytes /\ c = EACUTE THEN 2
  ELSE IF bytes /\ c = LS THEN 3
  ELSE 1

\* the sum of the widths of the characters of x
StrSize(x, bytes) ==
  LET AtLeast(w) == Cardinality({k \in 1..Len(x) : DumpWidth(x[k], bytes) >= w})
  IN  AtLeast(1) + AtLeast(2) + AtLeast(3)

\* len('{"ticker": "", "title": "", "url": "", "source": "", "published_at": ""}')
ITEM_FRAME == 72

\* the size of json.dumps(c) for an entry c of the compact list
EntrySize(c, bytes) ==
  ITEM_FRAME + StrSize(c.ticker, bytes) + StrSize(c.title, bytes)
    + StrSize(c.url, bytes) + StrSize(c.source, bytes)
    + StrSize(c.published_at, bytes)

RECURSIVE EntriesSize(_, _)
EntriesSize(payload, bytes) ==
  IF payload = <<>> THEN 0
  ELSE EntrySize(Head(payload), bytes) + EntriesSize(Tail(payload), bytes)

\* the size of json.dumps(payload): the brackets, the entries, and ", "
\* between two entries
DumpSize(payload, bytes) ==
  2 + EntriesSize(payload, bytes)
    + (IF Len(payload) > 1 THEN 2 * (Len(payload) - 1) ELSE 0)

\* size_of(payload) = len(json.dumps(payload, ensure_ascii=False))
size_of(payload) == DumpSize(payload, FALSE)

\* by_ticker[t], 0 when t is not in by_ticker yet
CountOf(by_ticker, t) == IF t \in DOMAIN by_ticker THEN by_ticker[t] ELSE 0

\* the entry built from an item
CompactEntry(item) ==
  LET title == Strip(OrEmpty(item.title))
  IN  [ticker |-> UpperStr(OrEmpty(item.ticker)),
       title |-> IF Len(title) > TITLE_MAX
                   THEN SubSeq(title, 1, TITLE_KEEP) \o <<".", ".", ".">>
                   ELSE title,
       url |-> Strip(OrEmpty(item.url)),
       source |-> OrEmpty(item.source),
       published_at |-> OrEmpty(item.published_at)]

\* a faulty variant of the for loop, which C9 must tell from it: a ticker
\* is skipped once its counter is over per_ticker
RECURSIVE CompactFromOverCap(_, _, _, _, _, _, _)
CompactFromOverCap(news, i, by_ticker, urls, compact, max_items, per_ticker) ==
  IF i > Len(news) THEN [compact |-> compact, urls |-> urls]
  ELSE LET c == CompactEntry(news[i])
           t == c.ticker
           n == CountOf(by_ticker, t)
           compact1 == Append(compact, c)
           urls1 == IF c.url # <<>> THEN Append(urls, c.url) ELSE urls
       IN  IF n > per_ticker
             THEN CompactFromOverCap(news, i + 1, (t :> n) @@ by_ticker, urls,
                                     compact, max_items, per_ticker)
           ELSE IF Len(compact1) >= max_items
             THEN [compact |-> compact1, urls |-> urls1]
           ELSE CompactFromOverCap(news, i + 1, (t :> n + 1) @@ by_ticker,
                                   urls1, compact1, max_items, per_ticker)

\* the for loop of _compact_news from item i
RECURSIVE CompactFrom(_, _, _, _, _, _, _)
CompactFrom(news, i, by_ticker, urls, compact, max_items, per_ticker) ==
  IF i > Len(news) THEN [compact |-> compact, urls |-> urls]
  ELSE LET c == CompactEntry(news[i])
           t == c.ticker
           n == CountOf(by_ticker, t)
           compact1 == Append(compact, c)
           urls1 == IF c.url # <<>> THEN Append(urls, c.url) ELSE urls
       IN  IF n >= per_ticker
             THEN CompactFrom(news, i + 1, (t :> n) @@ by_ticker, urls, compact,
                              max_items, per_ticker)
           ELSE IF Len(compact1) >= max_items
             THEN [compact |-> compact1, urls |-> urls1]
           ELSE CompactFrom(news, i + 1, (t :> n + 1) @@ by_ticker, urls1,
                            compact1, max_items, per_ticker)

\* a faulty variant of the while loop, which C8 must tell from it: one
\* item at most is dropped
TrimOnce(compact, max_chars) ==
  IF compact # <<>> /\ size_of(compact) > max_chars
    THEN SubSeq(compact, 1, Len(compact) - 1)
    ELSE compact

\* while compact and size_of(compact) > max_chars: compact.pop()
RECURSIVE TrimToBudget(_, _)
TrimToBudget(compact, max_chars) ==
  IF compact # <<>> /\ size_of(compact) > max_chars
    THEN TrimToBudget(SubSeq(compact, 1, Len(compact) - 1), max_chars)
    ELSE compact

\* the urls without their repetitions, in order
RECURSIVE DedupUrls(_, _)
DedupUrls(urls, dedup_urls) ==
  IF urls = <<>> THEN dedup_urls
  ELSE IF \E k \in 1..Len(dedup_urls) : dedup_urls[k] = Head(urls)
    THEN DedupUrls(Tail(urls), dedup_urls)
  ELSE DedupUrls(Tail(urls), Append(dedup_urls, Head(urls)))

compact_news(news, max_items, per_ticker, max_chars) ==
  IF news = <<>> THEN [compact |-> <<>>, urls |-> <<>>]
  ELSE LET r == CompactFrom(news, 1, <<>>, <<>>, <<>>, max_items, per_ticker)
       IN  [compact |-> TrimToBudget(r.compact, max_chars),
            urls |-> DedupUrls(r.urls, <<>>)]

\* the news items the compactor is run on: tickers in both cases and
\* missing, a title with a non-ASCII letter and padding, a title longer
\* than TITLE_MAX, a title with a quote, blank and repeated urls
NEWS ==
  <<
    [ticker |-> <<"a">>, title |-> <<"t">>, url |-> <<"u">>,
     source |-> <<"s">>, published_at |-> <<>>],
    [ticker |-> <<"A">>, title |-> <<SP, EACUTE, SP>>, url |-> <<"u">>,
     source |-> None, published_at |-> None],
    [ticker |-> <<"B">>, title |-> Repeat("x", TITLE_MAX + 1), url |-> <<"v">>,
     source |-> <<"s">>, published_at |-> <<>>],
    [ticker |-> None, title |-> None, url |-> None,
     source |-> None, published_at |-> None],
    [ticker |-> <<"A">>, title |-> <<QUOTE>>, url |-> <<"w">>,
     source |-> <<"s">>, published_at |-> <<>>],
    [ticker |-> <<"B">>, title |-> <<"t">>, url |-> <<SP>>,
     source |-> <<"s">>, published_at |-> <<>>]
  >>

\* the longest news list of the model
MaxNews == 3

\* the values of max_items, per_ticker and max_chars of the model
MaxItemsValues == {1, 2, DEFAULT_MAX_ITEMS}
PerTickerValues == {0, 1, 2, DEFAULT_PER_TICKER}
MaxCharsValues == {0, 1, 2, 75, 78, 79, 156, 160, 340, DEFAULT_MAX_CHARS}

CompactorIdle ==
  [pc |-> "idle", news |-> <<>>, max_items |-> 0, per_ticker |-> 0,
   max_chars |-> 0, out |-> [compact |-> <<>>, urls |-> <<>>]]

CompactorStart ==
  \E ids \in SeqsUpTo(1..Len(NEWS), MaxNews) :
    \E n \in MaxItemsValues, k \in PerTickerValues, b \in MaxCharsValues :
      compactor = [pc |-> "call", news |-> [x \in 1..Len(ids) |-> NEWS[ids[x]]],
                   max_items |-> n, per_ticker |-> k, max_chars |-> b,
                   out |-> [compact |-> <<>>, urls |-> <<>>]]

\* compact, url_list = _compact_news(news, max_items, per_ticker, max_chars)
Compact ==
  /\ compactor.pc = "call"
  /\ compactor' = [compactor EXCEPT
       !.pc = "done",
       !.out = compact_news(compactor.news, compactor.max_items,
                            compactor.per_ticker, compactor.max_chars)]
  /\ UNCHANGED <<parser, cutter, crawler, quoter, orchVars>>

\* ------------------------------------------------------------------------
\* The functions a run calls (routes.py, services)
\* ------------------------------------------------------------------------

\* an optional float: <<>> for None, <<v>> for the value v
Absent == <<>>

\* what the market-data source holds for a ticker: the closes of the last
\* days, or a failure of the call
QuoteFailed == [ok |-> FALSE, closes |-> <<>>]
QuoteOptions == {QuoteFailed, [ok |-> TRUE, closes |-> <<100, 110>>]}

\* what the two news sources hold for a ticker
NewsOptions ==
  { [feed |-> <<>>, nlist |-> <<>>],
    [feed |-> <<[title |-> <<"t">>, link |-> <<"u", "1">>]>>, nlist |-> <<>>] }

\* the items fetch_relevant_news collects for tickers[i..], in fetch order
RECURSIVE FetchedFrom(_, _, _)
FetchedFrom(tickers, i, held) ==
  IF i > Len(tickers) THEN <<>>
  ELSE RssItems(tickers[i], held[tickers[i]].feed)
         \o SearchItems(tickers[i], held[tickers[i]].nlist)
         \o FetchedFrom(tickers, i + 1, held)

\* fetch_relevant_news(tickers) when the sources hold held
fetch_relevant_news(tickers, held) ==
  DedupFrom(FetchedFrom(tickers, 1, held), 1, {}, <<>>)

\* the record get_daily_indicators makes of a quote; change_pct is the
\* exact quotient <<numerator, denominator>> of (last - prev) * 100 / prev
IndicatorRecord(q) ==
  LET n == Len(q.closes)
      last == IF n >= 1 THEN <<q.closes[n]>> ELSE Absent
      prev == IF n >= 2 THEN <<q.closes[n - 1]>> ELSE Absent
      both == /\ last # Absent /\ last[1] # 0
              /\ prev # Absent /\ prev[1] # 0
  IN  IF ~q.ok THEN [error |-> "fetch_failed"]
      ELSE [price |-> last, prev_close |-> prev,
            change_pct |-> IF both
                             THEN <<<<(last[1] - prev[1]) * 100, prev[1]>>>>
                             ELSE Absent]

\* get_daily_indicators(tickers): out[t] for each t, in the order of the
\* first assignment to a key
RECURSIVE IndicatorsFrom(_, _, _, _)
IndicatorsFrom(tickers, i, held, out) ==
  IF i > Len(tickers) THEN out
  ELSE LET t == tickers[i]
           rec == [ticker |-> t, record |-> IndicatorRecord(held[t])]
       IN  IndicatorsFrom(tickers, i + 1, held,
             IF \E k \in 1..Len(out) : out[k].ticker = t
               THEN [k \in 1..Len(out) |->
                       IF out[k].ticker = t THEN rec ELSE out[k]]
               ELSE Append(out, rec))

get_daily_indicators(tickers, held) == IndicatorsFrom(tickers, 1, held, <<>>)

\* ------------------------------------------------------------------------
\* A call of get_daily_indicators(tickers)
\* ------------------------------------------------------------------------

\* the most daily closes of a history
MaxCloses == 2

\* the closes of the histories: 0.0, 100.0, 110.0
Closes == {0, 100, 110}

\* what the market-data source holds for a ticker: the call fails, or it
\* gives a history of 0 to MaxCloses closes
QuoteCases ==
  {QuoteFailed} \cup {[ok |-> TRUE, closes |-> c] : c \in SeqsUpTo(Closes, MaxCloses)}

QuoterIdle == [pc |-> "idle", tickers |-> <<>>, held |-> <<>>, out |-> <<>>]

QuoterStart ==
  \E ts \in TickerLists :
    \E held \in [{ts[k] : k \in 1..Len(ts)} -> QuoteCases] :
      quoter = [pc |-> "call", tickers |-> ts, held |-> held, out |-> <<>>]

\* indicators = get_daily_indicators(tickers)
GetIndicators ==
  /\ quoter.pc = "call"
  /\ quoter' = [quoter EXCEPT !.pc = "done",
                              !.out = get_daily_indicators(quoter.tickers,
                                                           quoter.held)]
  /\ UNCHANGED <<parser, cutter, crawler, compactor, orchVars>>

\* sorted(S) for a set of tickers of the model
SortedTickers(S) ==
  (IF TA \in S THEN <<TA>> ELSE <<>>) \o (IF TB \in S THEN <<TB>> ELSE <<>>)

\* what PROMPT_EN.format is given: the compact news, the urls, the
\* indicators and the sorted target tickers
Prompt(news, indicators) ==
  LET c == compact_news(news, DEFAULT_MAX_ITEMS, DEFAULT_PER_TICKER,
                        DEFAULT_MAX_CHARS)
      S == {news[k].ticker : k \in {j \in 1..Len(news) :
                                      news[j].ticker \notin {None, <<>>}}}
             \cup {indicators[k].ticker : k \in 1..Len(indicators)}
  IN  [news_compact |-> c.compact, news_urls |-> c.urls,
       indicators |-> indicators, tickers |-> SortedTickers(S)]

\* '{"ticker":"T","action":"Buy"}'
SignalJson(t) ==
  <<"{", QUOTE>> \o TICKER_KEY \o <<QUOTE, ":", QUOTE>> \o t
    \o <<QUOTE, ",", QUOTE>> \o ACTION_KEY
    \o <<QUOTE, ":", QUOTE, "B", "u", "y", QUOTE, "}">>

RECURSIVE SignalsJson(_)
SignalsJson(ts) ==
  IF ts = <<>> THEN <<>>
  ELSE SignalJson(Head(ts))
         \o (IF Len(ts) > 1 THEN <<",">> ELSE <<>>) \o SignalsJson(Tail(ts))

\* a content of the model: a narrative, the marker line, and the signals
\* of the tickers ts
Reply(ts) ==
  <<"m", "d", NL, "-", "-", ">", "J", "s", "o", "n", ":", NL, "{", QUOTE>>
    \o SIGNALS \o <<QUOTE, ":", "[">> \o SignalsJson(ts) \o <<"]", "}">>

\* a content whose signals are null
ReplyNull ==
  <<"m", "d", NL, "-", "-", ">", "J", "s", "o", "n", ":", NL, "{", QUOTE>>
    \o SIGNALS \o <<QUOTE, ":", "n", "u", "l", "l", "}">>

\* what the model provider does with a request: the call fails (timeout,
\* status, transport, no content), or it answers with a content
CallFailed(e) == [ok |-> FALSE, content |-> <<>>, error |-> e]
Answered(c) == [ok |-> TRUE, content |-> c, error |-> <<>>]

\* str(e) for the exceptions of the try block: one that requests raises
\* (requests.post times out or the transport fails, raise_for_status finds
\* a status that is not 2xx), and the KeyError of
\* data['choices'][0]['message']['content'] when there is no such key
ERRORS == { <<"5", "0", "0">>, <<"c", "h", "o", "i", "c", "e", "s">> }

\* the contents: signals of one ticker, of two, null signals, and null
\* for the content itself
ModelOptions ==
  {CallFailed(e) : e \in ERRORS}
    \cup {Answered(c) : c \in {Reply(<<TA>>), Reply(<<TB, TA>>), ReplyNull, None}}

\* "Error calling OpenAI: ", which str(e) follows
ERROR_MARKDOWN == <<"E", "r", "r", "o", "r", ":">>

\* "return markdown, signals" for the parsed content r
Returned(r) == [markdown |-> r.md, signals |-> r.signals]

\* a faulty variant of generate_daily_summary_en, which C11 must tell from
\* it: the except block leaves signals as it was set before the try, {}
generate_daily_summary_en_no_signals(answer) ==
  IF ~answer.ok
    THEN [markdown |-> ERROR_MARKDOWN \o answer.error, signals |-> JDict(<<>>)]
    ELSE Returned(extract_markdown_and_json(answer.content))

\* generate_daily_summary_en(news, indicators) when the provider does
\* answer with the request
generate_daily_summary_en(answer) ==
  IF ~answer.ok
    THEN [markdown |-> ERROR_MARKDOWN \o answer.error,
          signals |-> EmptySignalSet]
    ELSE Returned(extract_markdown_and_json(answer.content))

\* bool(v) for a parsed JSON value
Truthy(v) ==
  CASE v.t = "str" -> v.s # <<>>
    [] v.t = "num" -> v.s # <<"0">>
    [] v.t = "lit" -> v.s = <<"t", "r", "u", "e">>
    [] OTHER -> v.items # <<>>

\* [s.get('ticker') for s in prev_signals if s.get('ticker')] followed by
\* (t or '').upper() for each: ok is FALSE where one of them raises (the
\* signals are not iterable, a signal is not a mapping, a ticker is
\* neither a str nor falsy)
PrevTickers(report) ==
  LET sigset == report.signals
      v == IF DictHas(sigset, SIGNALS) THEN DictGet(sigset, SIGNALS)
           ELSE JList(<<>>)
      TickerOf(e) == IF DictHas(e, TICKER_KEY) THEN DictGet(e, TICKER_KEY)
                     ELSE JLit(<<"n", "u", "l", "l">>)
      kept == SelectSeq(v.items, LAMBDA e : Truthy(TickerOf(e)))
  IN  IF sigset.t # "dict" THEN [ok |-> FALSE, tickers |-> <<>>]
      ELSE IF v.t \in {"lit", "num"} THEN [ok |-> FALSE, tickers |-> <<>>]
      ELSE IF v.t \in {"str", "dict"}
        THEN [ok |-> (v.s = <<>> /\ v.items = <<>>), tickers |-> <<>>]
      ELSE IF \E k \in 1..Len(v.items) : v.items[k].t # "dict"
        THEN [ok |-> FALSE, tickers |-> <<>>]
      ELSE IF \E k \in 1..Len(kept) : TickerOf(kept[k]).t # "str"
        THEN [ok |-> FALSE, tickers |-> <<>>]
      ELSE [ok |-> TRUE,
            tickers |-> [k \in 1..Len(kept) |-> TickerOf(kept[k]).s]]

\* the loop that builds merged: upper case, no empty ticker, no repetition
RECURSIVE MergeTickers(_, _)
MergeTickers(ts, merged) ==
  IF ts = <<>> THEN merged
  ELSE LET tt == UpperStr(OrEmpty(Head(ts)))
       IN  IF tt # <<>> /\ ~(\E k \in 1..Len(merged) : merged[k] = tt)
             THEN MergeTickers(Tail(ts), Append(merged, tt))
             ELSE MergeTickers(Tail(ts), merged)

\* the persisted report file: absent, empty (opened for writing, nothing
\* written yet), partial (a part of the document written), or holding a
\* report
NoReport ==
  [timestamp |-> 0, news |-> <<>>, indicators |-> <<>>, markdown |-> <<>>,
   signals |-> EmptySignalSet]
AbsentFile == [state |-> "absent", report |-> NoReport]
EmptyFile == [state |-> "empty", report |-> NoReport]
PartialFile == [state |-> "partial", report |-> NoReport]

\* the block "if os.path.exists(data_path)": the tickers after it, for the
\* tickers before it; json.load of an empty file raises, and except passes
TickersAfterLastRun(f, tickers) ==
  IF f.state # "report" THEN tickers
  ELSE LET r == PrevTickers(f.report)
       IN  IF r.ok THEN MergeTickers(r.tickers \o tickers, <<>>) ELSE tickers

\* a faulty variant of the report, which C10 must tell from it: the time of
\* the run is written into the markdown too
RunReportStamped(ts, news, indicators, markdown, signals) ==
  [timestamp |-> ts, news |-> news, indicators |-> indicators,
   markdown |-> Repeat("#", ts) \o markdown, signals |-> signals]

\* the document json.dump writes to last_run.json
RunReport(ts, news, indicators, markdown, signals) ==
  [timestamp |-> ts, news |-> news, indicators |-> indicators,
   markdown |-> markdown, signals |-> signals]

\* ------------------------------------------------------------------------
\* The runs (routes.py: run_now, run_stream)
\* ------------------------------------------------------------------------

\* the most runs of a behaviour
MaxRuns == 2

\* the values of DEFAULT_TICKERS and the answers of the trending source
DefaultLists == {<<>>, <<TA, TB>>}
TrendingLists == {<<>>, <<TA>>}

NoAiOutput == [timestamp |-> 0, markdown |-> <<>>, signals |-> EmptySignalSet]

\* call: how the model call of the run went ("none" before it)
IdleRun ==
  [pc |-> "idle", entry |-> "none", n |-> 0, tickers |-> <<>>, news |-> <<>>,
   indicators |-> <<>>, call |-> "none", markdown |-> <<>>,
   signals |-> EmptySignalSet]

\* the events of run_stream.generate: sse_event(event, data)
Progress(message, pct) == [event |-> "progress", message |-> message, pct |-> pct]
Done(message) == [event |-> "done", message |-> message]

\* the events of a streaming run whose stages all succeed, in their order
PIPELINE ==
  << Progress("Starting run", 1), Progress("Tickers", 5),
     Progress("Fetching news", 10), Progress("News fetched", 40),
     Progress("Fetching indicators", 45), Progress("Indicators fetched", 60),
     Progress("Calling OpenAI", 65), Progress("OpenAI summary parsed", 90),
     Progress("Saved results", 98), Done("Run completed") >>

\* the events after the stage of PIPELINE[a..b]: a streaming run emits
\* them, the other runs emit nothing
Emitted(a, b) ==
  IF run.entry = "run_stream" THEN events \o SubSeq(PIPELINE, a, b) ELSE events

\* a faulty variant of the except block of generate, which C12 must tell
\* from it: the terminal event is not emitted
RaisedEventsNoDone(evs) == Append(evs, Progress("Error", 100))

\* the except block of generate: the events after it
RaisedEvents(evs) == evs \o <<Progress("Error", 100), Done("Run failed")>>

OrchIdle ==
  /\ config = [has_key |-> FALSE, default_tickers |-> <<>>]
  /\ upstream = [trending |-> <<>>, news |-> <<>>, quotes |-> <<>>, llm |-> <<>>]
  /\ file = AbsentFile
  /\ ai_out = NoAiOutput
  /\ run = IdleRun
  /\ history = <<>>
  /\ clock = 1
  /\ events = <<>>

\* the application starts: no report yet, no upstream answer yet
OrchStart ==
  /\ config \in [has_key : BOOLEAN, default_tickers : DefaultLists]
  /\ upstream = [trending |-> <<>>, news |-> <<>>, quotes |-> <<>>, llm |-> <<>>]
  /\ file = AbsentFile
  /\ ai_out = NoAiOutput
  /\ run = IdleRun
  /\ history = <<>>
  /\ clock = 1
  /\ events = <<>>

\* the answer a is the one the service gives to request k: the one it gave
\* before, if it was asked before
Answers(held, k, a) == k \in DOMAIN held => a = held[k]

\* the locals of a run that starts with the tickers ts
Started(entry, ts) ==
  [IdleRun EXCEPT !.pc = "news", !.entry = entry, !.n = run.n + 1,
                  !.tickers = ts]

\* api_key (POST) with a key the provider accepts: set_openai_key
SaveApiKey ==
  /\ ~config.has_key
  /\ config' = [config EXCEPT !.has_key = TRUE]
  /\ UNCHANGED <<upstream, file, ai_out, run, history, clock, events, funVars>>

\* run_now up to "news = fetch_relevant_news(tickers)": the tickers of the
\* signals of the last report; if there are none, the trending tickers.
\* Its response is one JSON document, a body of no event
RunNow ==
  /\ run.pc = "idle" /\ run.n < MaxRuns
  /\ config.has_key
  /\ LET ts == TickersAfterLastRun(file, <<>>)
     IN  IF ts # <<>>
           THEN run' = Started("run_now", ts) /\ UNCHANGED upstream
           ELSE \E tr \in TrendingLists :
                  /\ Answers(upstream.trending, "US", tr)
                  /\ upstream' = [upstream EXCEPT !.trending = ("US" :> tr) @@ @]
                  /\ run' = Started("run_now", tr)
  /\ events' = <<>>
  /\ UNCHANGED <<config, file, ai_out, history, clock, funVars>>

\* run_stream.generate up to "news = fetch_relevant_news(tickers)": the
\* tickers of the signals of the last report, then DEFAULT_TICKERS
RunStream ==
  /\ run.pc = "idle" /\ run.n < MaxRuns
  /\ config.has_key
  /\ run' = Started("run_stream",
                    TickersAfterLastRun(file, config.default_tickers))
  /\ events' = SubSeq(PIPELINE, 1, 3)
  /\ UNCHANGED <<config, upstream, file, ai_out, history, clock, funVars>>

\* initial_run(root_path) up to "news = fetch_relevant_news(tickers)", when
\* create_app finds RUN_ON_STARTUP: the tickers are DEFAULT_TICKERS
InitialRun ==
  /\ run.pc = "idle" /\ run.n = 0
  /\ run' = Started("initial_run", config.default_tickers)
  /\ UNCHANGED <<config, upstream, file, ai_out, history, clock, events,
                 funVars>>

\* the tickers of the run, as a set
RunTickers == {run.tickers[k] : k \in 1..Len(run.tickers)}

\* news = fetch_relevant_news(tickers)
FetchNews ==
  /\ run.pc = "news"
  /\ \E held \in [RunTickers -> NewsOptions] :
       /\ \A t \in RunTickers : Answers(upstream.news, t, held[t])
       /\ upstream' = [upstream EXCEPT !.news = held @@ @]
       /\ run' = [run EXCEPT !.pc = "indicators",
                             !.news = fetch_relevant_news(run.tickers, held)]
  /\ events' = Emitted(4, 5)
  /\ UNCHANGED <<config, file, ai_out, history, clock, funVars>>

\* indicators = get_daily_indicators(tickers)
FetchIndicators ==
  /\ run.pc = "indicators"
  /\ \E held \in [RunTickers -> QuoteOptions] :
       /\ \A t \in RunTickers : Answers(upstream.quotes, t, held[t])
       /\ upstream' = [upstream EXCEPT !.quotes = held @@ @]
       /\ run' = [run EXCEPT !.pc = "model",
                             !.indicators = get_daily_indicators(run.tickers, held)]
  /\ events' = Emitted(6, 7)
  /\ UNCHANGED <<config, file, ai_out, history, clock, funVars>>

\* the provider answers the prompt with a
Asked(prompt, a) ==
  /\ Answers(upstream.llm, prompt, a)
  /\ upstream' = [upstream EXCEPT !.llm = (prompt :> a) @@ @]

\* the locals of the run after "markdown, signals = r", r made of the
\* answer a
Summarised(a, r) ==
  [run EXCEPT !.pc = "open", !.call = IF a.ok THEN "answered" ELSE "failed",
              !.markdown = r.markdown, !.signals = r.signals]

\* markdown, signals = generate_daily_summary_en(news, indicators), in a
\* request; at startup there is no application context for get_openai_key
CallModel ==
  /\ run.pc = "model" /\ run.entry # "initial_run"
  /\ \E a \in ModelOptions :
       /\ Asked(Prompt(run.news, run.indicators), a)
       /\ run' = Summarised(a, generate_daily_summary_en(a))
  /\ events' = Emitted(8, 8)
  /\ UNCHANGED <<config, file, ai_out, history, clock, funVars>>

\* open(data_path, 'w'): the file is there and empty
OpenReport ==
  /\ run.pc = "open"
  /\ file' = EmptyFile
  /\ run' = [run EXCEPT !.pc = "dump"]
  /\ UNCHANGED <<config, upstream, ai_out, history, clock, events, funVars>>

\* json.dump of the report, and the file is closed
DumpReport ==
  /\ run.pc = "dump"
  /\ file' = [state |-> "report",
              report |-> RunReport(clock, run.news, run.indicators,
                                   run.markdown, run.signals)]
  /\ clock' = clock + 1
  /\ run' = [run EXCEPT !.pc = "ai_out"]
  /\ UNCHANGED <<config, upstream, ai_out, history, events, funVars>>

\* the second document, openai_output.json (run_stream stamps it with the
\* time of the report, run_now with a later utcnow()), and the run ends
WriteAiOutput ==
  /\ run.pc = "ai_out"
  /\ ai_out' = [timestamp |-> IF run.entry = "run_stream"
                                THEN file.report.timestamp ELSE clock,
                markdown |-> run.markdown, signals |-> run.signals]
  /\ history' = Append(history, [entry |-> run.entry, tickers |-> run.tickers,
                                 call |-> run.call, report |-> file.report])
  /\ run' = [IdleRun EXCEPT !.n = run.n]
  /\ events' = Emitted(9, 10)
  /\ UNCHANGED <<config, upstream, file, clock, funVars>>

\* the stages that can raise: the deduplication of fetch_relevant_news (a
\* url that is not hashable), generate_daily_summary_en before its try
\* block (_compact_news on a title that is no str, get_openai_key), and
\* the three steps on the files (OSError)
RaisingStages == {"news", "model", "open", "dump", "ai_out"}

\* what is left of the report file when the stage pc raises: json.dump
\* raises with nothing or with a part of the document written
FileAfterRaise(pc) ==
  IF pc = "dump" THEN {EmptyFile, PartialFile} ELSE {file}

\* a stage raises: run_now ends with the exception (a response of status
\* 500), generate emits the events of its except block, create_app
\* swallows the exception of initial_run
StageRaises ==
  /\ run.pc \in RaisingStages
  /\ \E f \in FileAfterRaise(run.pc) : file' = f
  /\ run' = [IdleRun EXCEPT !.n = run.n]
  /\ events' = IF run.entry = "run_stream" THEN RaisedEvents(events)
                ELSE events
  /\ UNCHANGED <<config, upstream, ai_out, history, clock, funVars>>

\* the functions under test are not in a call
FunIdle ==
  /\ parser = ParserIdle /\ cutter = CutterIdle
  /\ crawler = CrawlerIdle /\ compactor = CompactorIdle
  /\ quoter = QuoterIdle

\* ------------------------------------------------------------------------
\* Specifications: the runs, and one per function under test
\* ------------------------------------------------------------------------

Init == OrchStart /\ FunIdle
Next ==
  \/ SaveApiKey
  \/ RunNow
  \/ RunStream
  \/ InitialRun
  \/ FetchNews
  \/ FetchIndicators
  \/ CallModel
  \/ OpenReport
  \/ DumpReport
  \/ WriteAiOutput
  \/ StageRaises
Spec == Init /\ [][Next]_vars

InitParser ==
  ParserStart /\ cutter = CutterIdle /\ crawler = CrawlerIdle
    /\ compactor = CompactorIdle /\ quoter = QuoterIdle /\ OrchIdle
NextParser == Extract
SpecParser == InitParser /\ [][NextParser]_vars

InitCutter ==
  CutterStart /\ parser = ParserIdle /\ crawler = CrawlerIdle
    /\ compactor = CompactorIdle /\ quoter = QuoterIdle /\ OrchIdle
NextCutter == Cut
SpecCutter == InitCutter /\ [][NextCutter]_vars

InitCrawler ==
  CrawlerStart /\ parser = ParserIdle /\ cutter = CutterIdle
    /\ compactor = CompactorIdle /\ quoter = QuoterIdle /\ OrchIdle
NextCrawler == FetchRss \/ FetchSearch \/ Dedup
SpecCrawler == InitCrawler /\ [][NextCrawler]_vars

InitCompactor ==
  CompactorStart /\ parser = ParserIdle /\ cutter = CutterIdle
    /\ crawler = CrawlerIdle /\ quoter = QuoterIdle /\ OrchIdle
NextCompactor == Compact
SpecCompactor == InitCompactor /\ [][NextCompactor]_vars

InitIndicators ==
  QuoterStart /\ parser = ParserIdle /\ cutter = CutterIdle
    /\ crawler = CrawlerIdle /\ compactor = CompactorIdle /\ OrchIdle
NextIndicators == GetIndicators
SpecIndicators == InitIndicators /\ [][NextIndicators]_vars

\* ------------------------------------------------------------------------
\* Claims about the response parser (under SpecParser)
\* ------------------------------------------------------------------------

ParserDone == parser.pc = "done"

\* the text of the call: content or ''
ParserText == IF parser.content = None THEN <<>> ELSE parser.content

\* the entries of MARKERS that are a marker line of their own
MarkerLines == {2, 3, 4}

\* the entries of BODIES that are valid JSON, and what json.loads makes of
\* the ones that are an object with a signals key
ValidBodies == {1, 2, 3, 4, 5, 6, 8, 9, 10, 11, 13, 14}
SignalBodies == {1, 2, 3, 4, 8, 9, 10, 11, 14}

SignalsOf(v) == JDict(<<Member(SIGNALS, v)>>)

OneSignal(action) ==
  JDict(<<Member(TICKER_KEY, JStr(<<"A">>)), Member(ACTION_KEY, JStr(action))>>)

Embedded(body) ==
  CASE body \in {1, 3} -> SignalsOf(JList(<<>>))
    [] body = 2 -> SignalsOf(JList(<<OneSignal(<<"B", "u", "y">>)>>))
    [] body = 4 -> SignalsOf(JLit(<<"n", "u", "l", "l">>))
    [] body = 8 -> SignalsOf(JList(<<JStr(<<"}">>)>>))
    [] body = 9 -> SignalsOf(JList(<<JStr(<<BSLASH>>)>>))
    [] body = 10 -> SignalsOf(JList(<<JStr(<<"a", QUOTE, "}">>)>>))
    [] body = 11 -> SignalsOf(JList(<<JStr(<<"a", LS, "b">>)>>))
    [] body = 14 -> SignalsOf(JList(<<OneSignal(<<"H", "o", "l", "d">>)>>))

\* the candidate the code hands to json.loads when the marker line matched
MarkerCandidate(text) ==
  Strip(strip_code_fences(Strip(From(text, MarkerSearch(text).end))))

\* C1 (as claimed): when a marker line is found and the text after it is
\* not valid JSON, the markdown is the entire original text (compared up to
\* the whitespace around it, which every return of the parser trims) and
\* the SignalSet is {signals: []}.
C1_MalformedJsonKeepsWholeText ==
  (/\ ParserDone
   /\ MarkerSearch(ParserText).start # -1
   /\ ~json_loads(MarkerCandidate(ParserText)).ok)
    => /\ parser.out.md = Strip(ParserText)
       /\ parser.out.signals = EmptySignalSet

\* C2 (as claimed): the parser returns a (markdown, SignalSet) pair for
\* every content, and when no strategy succeeds the pair is (all of the
\* text, {signals: []}), the text compared up to the whitespace around it.
C2_GiveUpReturnsAllText ==
  ParserDone =>
    /\ parser.out.via \in {"marker", "legacy", "inline", "giveup"}
    /\ parser.out.via = "giveup" =>
         /\ parser.out.md = Strip(ParserText)
         /\ parser.out.signals = EmptySignalSet

\* a response of the form text + marker line + valid object with a signals
\* key, and nothing else
RoundTripForm ==
  /\ parser.in.marker \in MarkerLines
  /\ parser.in.body \in SignalBodies
  /\ parser.in.open = 1 /\ parser.in.close = 1 /\ parser.in.suffix = 1

RoundTripResult ==
  /\ parser.out.md = Strip(PREFIXES[parser.in.prefix])
  /\ parser.out.signals = Embedded(parser.in.body)

\* C3 (as claimed): for every response of the form text, newline, marker
\* line, newline, valid object with a signals key, the markdown is the text
\* trimmed and the SignalSet is the embedded object.
C3_RoundTripAnyText == (ParserDone /\ RoundTripForm) => RoundTripResult

\* the offset after the last character of s that is not whitespace
RStripLen(s) ==
  LET I == {i \in 1..Len(s) : ~IsSpace(s[i])}
  IN  IF I = {} THEN 0 ELSE Max(I)

\* the first match of the marker pattern does not begin inside the text
\* before the marker line: the text has no marker line of its own and no
\* trailing "-->" that the pattern joins to the marker line
FirstMatchIsMarkerLine ==
  MarkerSearch(ParserText).start >= RStripLen(PREFIXES[parser.in.prefix])

\* C3 (amended): the same, for the responses whose first match of the marker
\* pattern does not begin inside the text before the marker line.
C3_RoundTrip ==
  (ParserDone /\ RoundTripForm /\ FirstMatchIsMarkerLine) => RoundTripResult

\* C3 witness: a parsed response whose text needs trimming and whose object
\* holds one signal
C3_Witness ==
  /\ ParserDone /\ RoundTripForm /\ FirstMatchIsMarkerLine
  /\ parser.in.prefix = 3 /\ parser.in.body = 2
  /\ parser.out.md = <<"a">>

\* the response with the fences taken away
Unfenced(in) == [in EXCEPT !.open = 1, !.close = 1]

\* a valid candidate after a marker line, wrapped in fences
FencedForm ==
  /\ parser.in.marker \in MarkerLines
  /\ parser.in.body \in ValidBodies
  /\ parser.in.open # 1 /\ parser.in.close # 1
  /\ parser.in.suffix \in {1, 3}

SameAsUnfenced ==
  LET u == extract_markdown_and_json(Response(Unfenced(parser.in)))
  IN  parser.out.md = u.md /\ parser.out.signals = u.signals

FencesOnOwnLines ==
  /\ parser.in.open \in {2, 3}
  /\ parser.in.close = 2
  /\ \A i \in 1..Len(BODIES[parser.in.body]) : BODIES[parser.in.body][i] # LS

IsSignal(v) ==
  /\ v.t = "dict"
  /\ DictHas(v, ACTION_KEY)
  /\ DictGet(v, ACTION_KEY).t = "str"
  /\ DictGet(v, ACTION_KEY).s \in {<<"B", "u", "y">>, <<"S", "e", "l", "l">>}

\* a SignalSet: a mapping with a signals key whose value is a sequence of
\* Signal records
IsSignalSet(v) ==
  /\ v.t = "dict"
  /\ DictHas(v, SIGNALS)
  /\ DictGet(v, SIGNALS).t = "list"
  /\ \A i \in 1..Len(DictGet(v, SIGNALS).items) :
       IsSignal(DictGet(v, SIGNALS).items[i])

\* C6 (as claimed): the SignalSet the parser returns is a mapping with a
\* signals key whose value is a sequence of Signal records whose action is
\* Buy or Sell.
C6_SignalSetShape == ParserDone => IsSignalSet(parser.out.signals)

\* ------------------------------------------------------------------------
\* Claims about the balanced-brace scanner (under SpecCutter)
\* ------------------------------------------------------------------------

\* The offsets in start..k-1 of the double quotes that open or close a
\* string, read from offset start.  A quote outside a string opens one.  A
\* quote inside a string closes it unless it is escaped: by an odd number of
\* backslashes in a row before it, inside the string (anyBackslash FALSE), or
\* by any backslash before it, inside the string (anyBackslash TRUE).
RECURSIVE DelimsBefore(_, _, _, _)
DelimsBefore(text, start, k, anyBackslash) ==
  IF k <= start THEN {}
  ELSE LET D == DelimsBefore(text, start, k - 1, anyBackslash)
           j == k - 1
           inside == Cardinality(D) % 2 = 1
           slashes == Max({n \in 0..(j - Max(D) - 1) :
                              \A m \in 1..n : text[j - m + 1] = BSLASH})
           escaped == IF anyBackslash THEN slashes >= 1 ELSE slashes % 2 = 1
       IN  IF text[j + 1] = QUOTE /\ (~inside \/ ~escaped)
             THEN D \cup {j}
             ELSE D

\* the character at offset k is outside every double-quoted string
OutsideString(text, start, k, anyBackslash) ==
  /\ Cardinality(DelimsBefore(text, start, k, anyBackslash)) % 2 = 0
  /\ text[k + 1] # QUOTE

\* the brace depth after the character at offset k
DepthAt(text, start, k, anyBackslash) ==
  LET Braces(c) == {j \in start..k : /\ text[j + 1] = c
                                      /\ OutsideString(text, start, j, anyBackslash)}
  IN  Cardinality(Braces("{")) - Cardinality(Braces("}"))

\* text[start..i] for the first i where the depth is back to zero, the
\* empty string if there is none or start does not index an opening brace
BalancedPrefix(text, start, anyBackslash) ==
  LET Z == {i \in start..(Len(text) - 1) :
              DepthAt(text, start, i, anyBackslash) = 0}
  IN  IF start < 0 \/ start >= Len(text) THEN <<>>
      ELSE IF text[start + 1] # "{" THEN <<>>
      ELSE IF Z = {} THEN <<>>
      ELSE Slice(text, start, Min(Z) + 1)

CutterDone == cutter.pc = "done"

\* C5 (as claimed): the result is the shortest text[start..i] at whose end
\* the depth of the braces outside strings is back to zero, where a quote
\* preceded by a backslash inside a string does not end the string; it is
\* empty if there is none or start does not index an opening brace.
C5_QuoteAfterAnyBackslash ==
  CutterDone => cutter.out = BalancedPrefix(cutter.text, cutter.start, TRUE)

\* C5 (amended): the same, where a quote inside a string does not end the
\* string when it is preceded by an odd number of backslashes in a row (the
\* last of them escapes it); after an even number, the backslashes escape
\* each other and the quote ends the string.
C5_BalancedPrefix ==
  CutterDone => cutter.out = BalancedPrefix(cutter.text, cutter.start, FALSE)

\* C5 witness: the scanner cut an object at a brace that follows a string
\* with an escaped quote and a brace in it
C5_Witness ==
  /\ CutterDone
  /\ cutter.text = <<"{", QUOTE, BSLASH, QUOTE, "}", QUOTE>>
  /\ cutter.start = 0
  /\ cutter.out = <<>>

\* C5 witness of the other outcome: a string that ends after an escaped
\* backslash, and the object is cut at the brace behind it
C5_WitnessCut ==
  /\ CutterDone
  /\ cutter.text = <<"{", QUOTE, BSLASH, BSLASH, QUOTE, "}">>
  /\ cutter.out = cutter.text

\* ------------------------------------------------------------------------
\* Claims about the news aggregator (under SpecCrawler)
\* ------------------------------------------------------------------------

CrawlerDone == crawler.pc = "done"

HasUrl(it) == it.url \notin {None, <<>>}

\* the fetched items that are the first with their url
FirstFetched ==
  {k \in 1..Len(crawler.items) :
     /\ HasUrl(crawler.items[k])
     /\ \A j \in 1..(k - 1) : crawler.items[j].url # crawler.items[k].url}

\* the k-th item of the output is the k-th of the fetched items that are the
\* first with their url
KeepsFetchOrder ==
  \E f \in [1..Len(crawler.out) -> FirstFetched] :
    /\ \A a, b \in 1..Len(crawler.out) : a < b => f[a] < f[b]
    /\ \A a \in 1..Len(crawler.out) : crawler.out[a] = crawler.items[f[a]]

\* C7: the output of fetch_relevant_news holds every non-empty url of the
\* fetched items exactly once, the item kept for a url is the first one
\* fetched with it, no output item has an empty or missing url, and the
\* output keeps the order of fetching.
C7_Dedup ==
  CrawlerDone =>
    /\ \A a \in 1..Len(crawler.out) : HasUrl(crawler.out[a])
    /\ \A k \in 1..Len(crawler.items) :
         HasUrl(crawler.items[k]) =>
           Cardinality({a \in 1..Len(crawler.out) :
                          crawler.out[a].url = crawler.items[k].url}) = 1
    /\ Len(crawler.out) = Cardinality(FirstFetched)
    /\ KeepsFetchOrder

\* C7 witness: a url fetched for two tickers, and an item without a url,
\* were fetched, and the output has two items
C7_Witness ==
  /\ CrawlerDone
  /\ \E j, k \in 1..Len(crawler.items) :
       /\ j < k
       /\ crawler.items[j].url = crawler.items[k].url
       /\ HasUrl(crawler.items[j])
       /\ crawler.items[j].ticker # crawler.items[k].ticker
  /\ \E k \in 1..Len(crawler.items) : ~HasUrl(crawler.items[k])
  /\ Len(crawler.out) = 2

\* ------------------------------------------------------------------------
\* Claims about the news compactor (under SpecCompactor)
\* ------------------------------------------------------------------------

CompactorDone == compactor.pc = "done"

\* the list of the first item alone, as the compactor would make it
FirstAlone == <<CompactEntry(compactor.news[1])>>

\* C8 (as claimed): the compacted news serializes to at most B bytes, and
\* it is the empty list when even its first item alone exceeds B.
C8_WithinByteBudget ==
  CompactorDone =>
    /\ DumpSize(compactor.out.compact, TRUE) <= compactor.max_chars
    /\ (/\ compactor.news # <<>>
        /\ DumpSize(FirstAlone, TRUE) > compactor.max_chars)
         => compactor.out.compact = <<>>

\* C8 (amended): the compacted news is the empty list or serializes to at
\* most B characters, and it is the empty list when its first item alone
\* serializes to more than B characters.
C8_WithinCharBudget ==
  CompactorDone =>
    /\ \/ compactor.out.compact = <<>>
       \/ DumpSize(compactor.out.compact, FALSE) <= compactor.max_chars
    /\ (/\ compactor.news # <<>>
        /\ DumpSize(FirstAlone, FALSE) > compactor.max_chars)
         => compactor.out.compact = <<>>

\* C8 witness: three items were accepted and the budget left one of them
C8_Witness ==
  /\ CompactorDone
  /\ Len(compactor.news) = 3
  /\ compactor.max_items = DEFAULT_MAX_ITEMS
  /\ compactor.per_ticker = DEFAULT_PER_TICKER
  /\ Len(compactor.out.compact) = 1
  /\ DumpSize(compactor.out.compact, FALSE) = compactor.max_chars

\* C8 witness of the other outcome: the first item alone is over the budget
C8_WitnessEmpty ==
  /\ CompactorDone
  /\ compactor.news # <<>>
  /\ compactor.max_chars = 75
  /\ compactor.per_ticker > 0
  /\ compactor.out.compact = <<>>

\* the entries of the compacted news for a ticker, compared in upper case
EntriesOf(t) ==
  {a \in 1..Len(compactor.out.compact) :
     UpperStr(compactor.out.compact[a].ticker) = UpperStr(t)}

\* C9: no ticker symbol, compared after upper-casing, is in more than K
\* items of the compacted news, however many items of it were supplied.
C9_PerTickerCap ==
  CompactorDone =>
    \A k \in 1..Len(compactor.news) :
      Cardinality(EntriesOf(OrEmpty(compactor.news[k].ticker)))
        <= compactor.per_ticker

\* C9 witness: three items of one ticker, in both cases, were supplied and
\* two were kept
C9_Witness ==
  /\ CompactorDone
  /\ Len(compactor.news) = 3
  /\ \A k \in 1..3 : UpperStr(OrEmpty(compactor.news[k].ticker)) = <<"A">>
  /\ \E k \in 1..3 : compactor.news[k].ticker = <<"a">>
  /\ compactor.per_ticker = 2
  /\ Len(compactor.out.compact) = 2

\* ------------------------------------------------------------------------
\* Claims about the runs (under Spec)
\* ------------------------------------------------------------------------

\* two reports are identical in every field except timestamp
SameButTimestamp(r1, r2) ==
  /\ r1.news = r2.news
  /\ r1.indicators = r2.indicators
  /\ r1.markdown = r2.markdown
  /\ r1.signals = r2.signals

\* C10 (as claimed): after two runs in succession from the same entry
\* point, the upstream services answering identical requests identically,
\* the second report is the first one in every field except timestamp,
\* also when the first run had no report to read and the second reads the
\* tickers of its signals.
C10_AnyTwoRuns ==
  \A k \in 1..(Len(history) - 1) :
    history[k].entry = history[k + 1].entry
      => SameButTimestamp(history[k].report, history[k + 1].report)

\* C10 (amended): the same, when the second run works on the ticker list
\* of the first: the tickers it reads from the signals of the first report
\* (followed by DEFAULT_TICKERS in run_stream) are the first run's tickers.
C10_SameTickers ==
  \A k \in 1..(Len(history) - 1) :
    history[k].tickers = history[k + 1].tickers
      => SameButTimestamp(history[k].report, history[k + 1].report)

\* C10 witness: the first run had no report and took the trending tickers,
\* the second read the same tickers from the signals of the first, and
\* the two reports differ in their timestamp only
C10_Witness ==
  /\ Len(history) = 2
  /\ history[1].entry = "run_now" /\ history[2].entry = "run_now"
  /\ history[1].tickers = <<TA>> /\ history[2].tickers = <<TA>>
  /\ history[1].report.news # <<>>
  /\ DictGet(history[1].report.signals, SIGNALS).items # <<>>
  /\ SameButTimestamp(history[1].report, history[2].report)
  /\ history[1].report.timestamp # history[2].report.timestamp

\* the markdown of the except block for one of the exceptions
DescribesError(markdown) == \E e \in ERRORS : markdown = ERROR_MARKDOWN \o e

\* the stages of a run after generate_daily_summary_en has returned
PersistStages == {"open", "dump", "ai_out"}

\* C11: when the model call fails (the request times out, the transport
\* fails, the status is not 2xx, the response has no
\* choices[0].message.content), the run does not abort:
\* generate_daily_summary_en returns a markdown that describes the error
\* and the SignalSet {signals: []}, the run goes on to the stages that
\* persist, and the report it persists holds those values with the news
\* and the indicators of the run.
C11_FailedCallStillPersists ==
  /\ run.call = "failed"
       => /\ run.pc \in PersistStages
          /\ DescribesError(run.markdown)
          /\ run.signals = EmptySignalSet
          /\ run.pc = "ai_out"
               => /\ file.state = "report"
                  /\ file.report
                       = RunReport(file.report.timestamp, run.news,
                                   run.indicators, run.markdown, run.signals)
  /\ \A k \in 1..Len(history) :
       history[k].call = "failed"
         => /\ DescribesError(history[k].report.markdown)
            /\ history[k].report.signals = EmptySignalSet

\* C11 witness: a run whose model call failed with a status has completed,
\* and the report file holds its degraded report, with the news it fetched
C11_Witness ==
  /\ run.pc = "idle" /\ Len(history) = 1
  /\ history[1].call = "failed"
  /\ history[1].report.markdown = ERROR_MARKDOWN \o <<"5", "0", "0">>
  /\ history[1].report.signals = EmptySignalSet
  /\ history[1].report.news # <<>>
  /\ file.state = "report" /\ file.report = history[1].report
  /\ ai_out.markdown = history[1].report.markdown

\* s is the beginning of t
IsPrefix(s, t) == Len(s) <= Len(t) /\ s = SubSeq(t, 1, Len(s))

\* the two events that report a stage that raised
FAILURE == <<Progress("Error", 100), Done("Run failed")>>

\* the streaming response is complete: generate has returned
StreamEnded == run.pc = "idle" /\ events # <<>>

\* C12: in every execution of the streaming run, whether each stage
\* succeeds or raises, the events are emitted in pipeline order (the
\* events so far are the beginning of the pipeline's events, or such a
\* beginning followed by the report of the failure), no event follows a
\* 'done' event, and when the run has ended the last event is the one
\* 'done' event, 'Run completed' or 'Run failed'.
C12_OrderedAndTerminated ==
  /\ \/ IsPrefix(events, PIPELINE)
     \/ \E k \in 1..(Len(PIPELINE) - 1) :
          events = SubSeq(PIPELINE, 1, k) \o FAILURE
  /\ \A i \in 1..Len(events) : events[i].event = "done" => i = Len(events)
  /\ StreamEnded
       => /\ events[Len(events)].event = "done"
          /\ events[Len(events)].message \in {"Run completed", "Run failed"}
          /\ events[Len(events)].message = "Run completed"
               <=> events = PIPELINE

\* C12 witness: the model stage of a streaming run raised after the events
\* of the news and of the indicators, and the response ended with the
\* error and 'Run failed'
C12_Witness ==
  /\ StreamEnded
  /\ events = SubSeq(PIPELINE, 1, 7) \o FAILURE
  /\ history = <<>>

\* ------------------------------------------------------------------------
\* Claims about get_daily_indicators (under SpecIndicators)
\* ------------------------------------------------------------------------

QuoterDone == quoter.pc = "done"

\* the closes of the history of the ticker of out[k], oldest first
ClosesOf(k) == quoter.held[quoter.out[k].ticker].closes

\* (last - prev) / prev * 100 as the exact quotient <<numerator, denominator>>
ChangePct(last, prev) == <<(last - prev) * 100, prev>>

\* C13 (as claimed): for every ticker whose history was fetched,
\* get_daily_indicators sets change_pct to (last - prev) / prev * 100
\* exactly when the last close and the previous close are both present
\* and prev is not 0; in every other case (prev = 0, prev missing, last
\* missing) change_pct is absent.
C13_ChangePctUnlessPrevZero ==
  QuoterDone
    => \A k \in 1..Len(quoter.out) :
         LET c == ClosesOf(k)
             n == Len(c)
             r == quoter.out[k].record
         IN  quoter.held[quoter.out[k].ticker].ok
               => IF n >= 2 /\ c[n - 1] # 0
                    THEN r.change_pct = <<ChangePct(c[n], c[n - 1])>>
                    ELSE r.change_pct = Absent

\* ------------------------------------------------------------------------
\* Claims about the ticker list and the report file (under Spec)
\* ------------------------------------------------------------------------

\* the tickers of the signals of the persisted report, <<>> if there is no
\* report or it has no signal with a ticker (a run that has just started
\* has not written the file yet)
PersistedTickers ==
  IF file.state = "report" /\ PrevTickers(file.report).ok
    THEN PrevTickers(file.report).tickers
    ELSE <<>>

\* the run has chosen its tickers and has done nothing else yet
JustStarted == run.pc = "news"

\* C14 (as claimed): the ticker list of a run is chosen by strict priority:
\* if the previous persisted report has signals with tickers, the list is
\* exactly those tickers; otherwise it is the configured default list;
\* otherwise it is the result of the trending-tickers discovery call. This
\* holds for every entry point (run_now, run_stream, initial_run).
C14_StrictPriority ==
  JustStarted
    => IF PersistedTickers # <<>>
         THEN run.tickers = PersistedTickers
         ELSE IF config.default_tickers # <<>>
                THEN run.tickers = config.default_tickers
                ELSE /\ "US" \in DOMAIN upstream.trending
                     /\ run.tickers = upstream.trending["US"]

\* ------------------------------------------------------------------------
\* Claims about the upstream calls of fetch_relevant_news (under SpecCrawler)
\* ------------------------------------------------------------------------

\* the number of items the first k calls appended
RECURSIVE AddedBy(_)
AddedBy(k) == IF k = 0 THEN 0 ELSE crawler.calls[k].added + AddedBy(k - 1)

\* each upstream call, for each ticker, was attempted exactly once, in the
\* order of the loop
EachCallOnce ==
  /\ Len(crawler.calls) = 2 * Len(crawler.tickers)
  /\ \A i \in 1..Len(crawler.tickers) :
       /\ crawler.calls[2 * i - 1].i = i
       /\ crawler.calls[2 * i - 1].source = "rss"
       /\ crawler.calls[2 * i].i = i
       /\ crawler.calls[2 * i].source = "search"

\* no call was aborted: the aggregation holds what every call appended
AllCollected == Len(crawler.items) = AddedBy(Len(crawler.calls))

\* C15 (as claimed): in fetch_relevant_news each upstream call (RSS feed,
\* search) for each ticker is attempted exactly once, and a call that
\* fails or returns a malformed response contributes zero items to the
\* aggregation and does not abort it: the items of every other call are
\* still collected.
C15_FaultyCallAddsNothing ==
  CrawlerDone
    => /\ EachCallOnce
       /\ AllCollected
       /\ \A k \in 1..Len(crawler.calls) :
            crawler.calls[k].kind \in {"failed", "malformed"}
              => crawler.calls[k].added = 0

\* C16 (as claimed): persisting a report is an atomic overwrite: at every
\* point of every run, also when the write fails or is interrupted
\* part-way, the report file holds the complete prior report (or is not
\* there, before the first report) or the complete new report, never an
\* empty or partial document.
C16_AtomicOverwrite == file.state \in {"absent", "report"}

====
